---- MODULE Spec2Model ----
(***************************************************************************)
(* django-voting: the generic vote view (voting/views.py) over the vote    *)
(* store Vote.objects (voting/models.py, which is not part of the source   *)
(* tree at hand and is modelled from the specification, sections 3, 4.1).  *)
(*                                                                         *)
(* Python values: None is the string "None"; primary keys, slugs, tokens   *)
(* and URLs are strings; vote directions and scores are integers.          *)
(***************************************************************************)
EXTENDS Integers, FiniteSets, Sequences, TLC

VARIABLES store, req, resp, call, cast, clearPolicy, togglePolicy, inflight

vars == <<store, req, resp, call, cast, clearPolicy, togglePolicy, inflight>>

\* Number of authenticated users that send requests.
NumUsers == 2

Users == 1..NumUsers

None == "None"

\* Python truthiness of an optional string (None and '' are false).
Truthy(x) == x \notin {None, ""}

\* The rows of the one votable model ("Item") in the database: primary key,
\* slug, and whether the row's class defines get_absolute_url.
Items ==
  { [pk |-> "1", slug |-> "a", has_url |-> TRUE],
    [pk |-> "2", slug |-> "b", has_url |-> FALSE] }

Pks == {i.pk : i \in Items}

Directions == {1, 0, -1}

\* Faulty variant: "down" mapped to +1.
VOTE_DIRECTIONS_down_is_up == [up |-> 1, down |-> 1, clear |-> 0]

\* views.py:13
VOTE_DIRECTIONS == [up |-> 1, down |-> -1, clear |-> 0]

\* views.py:21
slug_field == "slug"

(***************************************************************************)
(* Vote.objects, from the specification.                                   *)
(***************************************************************************)
RECURSIVE SumDirections(_)
SumDirections(S) ==
  IF S = {} THEN 0
  ELSE LET r == CHOOSE x \in S : TRUE
       IN r.direction + SumDirections(S \ {r})

VotesOf(s, obj, user) == {r \in s : r.obj = obj /\ r.user = user}

\* The voter's current direction on the object; no record counts as 0.
CurrentDirection(s, obj, user) == SumDirections(VotesOf(s, obj, user))

\* get_score: the sum of direction over the object's Vote records.
get_score(s, obj) == SumDirections({r \in s : r.obj = obj})

\* Faulty variant: inserts a new record without replacing the voter's old one.
record_vote_insert(s, obj, user, vote) ==
  IF vote \notin Directions
  THEN [exc |-> "InvalidDirection", store |-> s, hasVote |-> FALSE, vote |-> 0]
  ELSE [exc |-> "none",
        store |-> s \cup {[obj |-> obj, user |-> user, direction |-> vote]},
        hasVote |-> TRUE, vote |-> vote]

\* record_vote: upsert of the (object, voter) record; a clear deletes the
\* record or sets its direction to 0, by the store's policy.
record_vote(s, obj, user, vote) ==
  IF vote \notin Directions
  THEN [exc |-> "InvalidDirection", store |-> s, hasVote |-> FALSE, vote |-> 0]
  ELSE LET others == s \ VotesOf(s, obj, user)
       IN IF vote = 0 /\ clearPolicy = "delete"
          THEN [exc |-> "none", store |-> others, hasVote |-> FALSE, vote |-> 0]
          ELSE [exc |-> "none",
                store |-> others \cup {[obj |-> obj, user |-> user, direction |-> vote]},
                hasVote |-> TRUE, vote |-> vote]

\* toggle: no vote -> up; up -> cleared (returns None); an existing down
\* goes to up or to cleared, by the store's policy.
toggle(s, obj, user) ==
  LET cur == CurrentDirection(s, obj, user)
      cleared == record_vote(s, obj, user, 0)
  IN IF cur = 1 \/ (cur = -1 /\ togglePolicy = "clear")
     THEN [cleared EXCEPT !.hasVote = FALSE]
     ELSE record_vote(s, obj, user, 1)

(***************************************************************************)
(* VoteObjectMixin                                                         *)
(***************************************************************************)
\* get_model: line 45 reads the undefined name model_label, so with an
\* app_label present the condition raises NameError before lines 49-54 run.
get_model(kw) ==
  IF Truthy(kw.model) THEN [exc |-> "none", model |-> kw.model]
  ELSE IF ~Truthy(kw.app_label) THEN [exc |-> "AttributeError", model |-> None]
  ELSE [exc |-> "NameError", model |-> None]

get_object(kw) ==
  LET m == get_model(kw)
      found == IF Truthy(kw.object_id)
               THEN {i \in Items : i.pk = kw.object_id}
               ELSE {i \in Items : i.slug = kw.slug}
  IN IF m.exc # "none" THEN [exc |-> m.exc, obj |-> None]
     ELSE IF ~Truthy(kw.object_id) /\ ~(Truthy(kw.slug) /\ Truthy(slug_field))
     THEN [exc |-> "AttributeError", obj |-> None]
     ELSE IF found = {} THEN [exc |-> "AttributeError", obj |-> None]
     ELSE [exc |-> "none", obj |-> (CHOOSE i \in found : TRUE).pk]

NoCall == [op |-> "none", obj |-> None, user |-> 0, vote |-> 0]

Raised(e, s) ==
  [exc |-> e, store |-> s, hasVote |-> FALSE, vote |-> 0, call |-> NoCall]

Called(res, c) ==
  [exc |-> res.exc, store |-> res.store, hasVote |-> res.hasVote,
   vote |-> res.vote, call |-> c]

\* Faulty variant: ignores the direction token and always toggles.
vote_on_object_always_toggle(s, r, obj) ==
  Called(toggle(s, obj, r.user),
         [op |-> "toggle", obj |-> obj, user |-> r.user, vote |-> 0])

\* Faulty variant: a missing token records an up vote instead of toggling.
vote_on_object_no_toggle(s, r, obj) ==
  LET direction == r.kwargs.direction
      vote == IF direction \in DOMAIN VOTE_DIRECTIONS
              THEN VOTE_DIRECTIONS[direction] ELSE 1
  IN IF Truthy(direction) /\ direction \notin DOMAIN VOTE_DIRECTIONS
     THEN Raised("AttributeError", s)
     ELSE Called(record_vote(s, obj, r.user, vote),
                 [op |-> "record_vote", obj |-> obj, user |-> r.user, vote |-> vote])

\* Faulty variant: an unknown token falls through to toggle instead of raising.
vote_on_object_unchecked_token(s, r, obj) ==
  LET direction == r.kwargs.direction
  IN IF direction \in DOMAIN VOTE_DIRECTIONS
     THEN Called(record_vote(s, obj, r.user, VOTE_DIRECTIONS[direction]),
                 [op |-> "record_vote", obj |-> obj, user |-> r.user,
                  vote |-> VOTE_DIRECTIONS[direction]])
     ELSE Called(toggle(s, obj, r.user),
                 [op |-> "toggle", obj |-> obj, user |-> r.user, vote |-> 0])

\* Faulty variant: votes as a fixed user instead of request.user.
vote_on_object_first_user(s, r, obj) ==
  LET direction == r.kwargs.direction
      user == 1
  IN IF Truthy(direction)
     THEN IF direction \notin DOMAIN VOTE_DIRECTIONS
          THEN Raised("AttributeError", s)
          ELSE Called(record_vote(s, obj, user, VOTE_DIRECTIONS[direction]),
                      [op |-> "record_vote", obj |-> obj, user |-> r.user,
                       vote |-> VOTE_DIRECTIONS[direction]])
     ELSE Called(toggle(s, obj, user),
                 [op |-> "toggle", obj |-> obj, user |-> r.user, vote |-> 0])

\* vote_on_object (lines 85-105): an explicit token goes through
\* VOTE_DIRECTIONS to record_vote, a missing or empty one to toggle.
vote_on_object(s, r, obj) ==
  LET direction == r.kwargs.direction
      user == r.user
  IN IF Truthy(direction)
     THEN IF direction \notin DOMAIN VOTE_DIRECTIONS
          THEN Raised("AttributeError", s)
          ELSE Called(record_vote(s, obj, user, VOTE_DIRECTIONS[direction]),
                      [op |-> "record_vote", obj |-> obj, user |-> user,
                       vote |-> VOTE_DIRECTIONS[direction]])
     ELSE Called(toggle(s, obj, user),
                 [op |-> "toggle", obj |-> obj, user |-> user, vote |-> 0])

(***************************************************************************)
(* VoteView: the four handlers.  Each yields the response, the store after *)
(* the request and the store call it made.                                 *)
(***************************************************************************)
NoResponse ==
  [kind |-> "none", success |-> "absent", score |-> 0, hasVote |-> FALSE,
   vote |-> 0, target |-> None, error |-> "none"]

Html(score) == [NoResponse EXCEPT !.kind = "html", !.score = score]

JsonScore(score) == [NoResponse EXCEPT !.kind = "json", !.score = score]

JsonVoted(score, v) ==
  [NoResponse EXCEPT !.kind = "json", !.success = "true", !.score = score,
                     !.hasVote = v.hasVote, !.vote = v.vote]

JsonFailure(e) ==
  [NoResponse EXCEPT !.kind = "json", !.success = "false", !.error = e]

Redirect(url) == [NoResponse EXCEPT !.kind = "redirect", !.target = url]

Exception(e) == [NoResponse EXCEPT !.kind = "exception", !.error = e]

Outcome(rsp, s, c, v) ==
  [resp |-> rsp, store |-> s, call |-> c, hasVote |-> v.hasVote, vote |-> v.vote]

NoVote == [hasVote |-> FALSE, vote |-> 0]

get(r) ==
  LET o == get_object(r.kwargs)
  IN IF o.exc # "none" THEN Outcome(Exception(o.exc), store, NoCall, NoVote)
     ELSE Outcome(Html(get_score(store, o.obj)), store, NoCall, NoVote)

\* Faulty variant: the read handler also registers the vote.
get_ajax_registers_vote(r) ==
  LET o == get_object(r.kwargs)
      v == vote_on_object(store, r, o.obj)
  IN IF o.exc = "AttributeError"
     THEN Outcome(JsonFailure(o.exc), store, NoCall, NoVote)
     ELSE IF o.exc # "none"
     THEN Outcome(Exception(o.exc), store, NoCall, NoVote)
     ELSE Outcome(JsonScore(get_score(v.store, o.obj)), v.store, v.call, v)

get_ajax(r) ==
  LET o == get_object(r.kwargs)
  IN IF o.exc = "AttributeError"
     THEN Outcome(JsonFailure(o.exc), store, NoCall, NoVote)
     ELSE IF o.exc # "none"
     THEN Outcome(Exception(o.exc), store, NoCall, NoVote)
     ELSE Outcome(JsonScore(get_score(store, o.obj)), store, NoCall, NoVote)

\* post: line 181 reads the undefined name post_vote_redirect (the class
\* attribute is self.post_vote_redirect), so the handler raises NameError
\* once the vote is cast; lines 182-197 never run.
post(r) ==
  LET o == get_object(r.kwargs)
      v == vote_on_object(store, r, o.obj)
  IN IF o.exc # "none" THEN Outcome(Exception(o.exc), store, NoCall, NoVote)
     ELSE IF v.exc # "none" THEN Outcome(Exception(v.exc), v.store, v.call, v)
     ELSE Outcome(Exception("NameError"), v.store, v.call, v)

post_ajax(r) ==
  LET o == get_object(r.kwargs)
      v == vote_on_object(store, r, o.obj)
  IN IF o.exc = "AttributeError"
     THEN Outcome(JsonFailure(o.exc), store, NoCall, NoVote)
     ELSE IF o.exc # "none"
     THEN Outcome(Exception(o.exc), store, NoCall, NoVote)
     ELSE IF v.exc = "AttributeError"
     THEN Outcome(JsonFailure(v.exc), v.store, v.call, v)
     ELSE IF v.exc # "none"
     THEN Outcome(Exception(v.exc), v.store, v.call, v)
     ELSE Outcome(JsonVoted(get_score(v.store, o.obj), v), v.store, v.call, v)

(***************************************************************************)
(* Requests                                                                *)
(***************************************************************************)
Kw(model, app_label, model_name, object_id, slug, direction) ==
  [model |-> model, app_label |-> app_label, model_name |-> model_name,
   object_id |-> object_id, slug |-> slug, direction |-> direction]

Tokens == {None, "", "up", "down", "clear", "sideways"}

\* URL parameters that resolve to a row.
Resolving(d) ==
  { Kw("Item", None, None, "1", None, d), Kw("Item", None, None, "2", None, d),
    Kw("Item", None, None, None, "b", d), Kw("Item", None, None, "1", "zz", d) }

\* URL parameters whose resolution fails.
Failing(d) ==
  { Kw("Item", None, None, "9", None, d), Kw("Item", None, None, None, "zz", d),
    Kw("Item", None, None, None, None, d), Kw(None, None, None, "1", None, d),
    Kw(None, "app", "item", "1", None, d), Kw(None, "app", "ghost", "1", None, d) }

Request(method, ajax, user, kw, next, redirect) ==
  [method |-> method, ajax |-> ajax, user |-> user, kwargs |-> kw,
   next |-> next, post_vote_redirect |-> redirect]

ByPk(kws) == {k \in kws : Truthy(k.object_id) /\ ~Truthy(k.slug)}

\* Reads do not look at the user; resolution failures do not either.
ReadRequests ==
  { Request("GET", a, 1, kw, None, None) :
      a \in BOOLEAN, kw \in Resolving("up") \cup Failing("up") }

AjaxWriteRequests ==
  { Request("POST", TRUE, u, kw, None, None) :
      u \in Users,
      kw \in ByPk(UNION {Resolving(d) : d \in Tokens}) \cup Resolving("up") }
  \cup
  { Request("POST", TRUE, 1, kw, None, None) : kw \in Failing("up") }

SyncWriteRequests ==
  { Request("POST", FALSE, u, kw, None, None) :
      u \in Users,
      kw \in ByPk(UNION {Resolving(d) : d \in {None, "up", "sideways"}}) }
  \cup
  { Request("POST", FALSE, u, kw, n, t) :
      u \in Users, n \in {None, "/next"}, t \in {None, "/done"},
      kw \in ByPk(Resolving("up")) }
  \cup
  { Request("POST", FALSE, 1, kw, None, None) : kw \in Failing("up") }

NoRequest == Request("none", FALSE, 0, Kw(None, None, None, None, None, None), None, None)

\* A worker between requests; hasCast: a request of its user has cast a vote.
Idle(hasCast) == [pc |-> "idle", req |-> NoRequest, obj |-> None, hasCast |-> hasCast]

\* The direction a voter's request leaves as the voter's current one: the
\* direction the token names, or what the toggle returned (None is 0).
CastAfter(r, out) ==
  IF out.call.op = "none" THEN cast
  ELSE [cast EXCEPT ![out.call.obj][r.user] =
          CASE r.kwargs.direction = "up" -> 1
            [] r.kwargs.direction = "down" -> -1
            [] r.kwargs.direction = "clear" -> 0
            [] OTHER -> IF out.hasVote THEN out.vote ELSE 0]

Init ==
  /\ store = {}
  /\ req = NoRequest
  /\ resp = NoResponse
  /\ call = NoCall
  /\ cast = [o \in Pks |-> [u \in Users |-> 0]]
  /\ clearPolicy \in {"delete", "zero"}
  /\ togglePolicy \in {"up", "clear"}
  /\ inflight = [u \in Users |-> Idle(FALSE)]

\* One request is dispatched to its handler and runs to completion.
Handle(r, out) ==
  /\ req = NoRequest
  /\ req' = r
  /\ resp' = out.resp
  /\ store' = out.store
  /\ call' = out.call
  /\ cast' = CastAfter(r, out)
  /\ UNCHANGED <<clearPolicy, togglePolicy, inflight>>

Get == \E r \in {q \in ReadRequests : ~q.ajax} : Handle(r, get(r))

GetAjax == \E r \in {q \in ReadRequests : q.ajax} : Handle(r, get_ajax(r))

Post == \E r \in SyncWriteRequests : Handle(r, post(r))

PostAjax == \E r \in AjaxWriteRequests : Handle(r, post_ajax(r))

\* The response is sent and the view instance of the request is dropped.
Complete ==
  /\ req # NoRequest
  /\ req' = NoRequest
  /\ resp' = NoResponse
  /\ call' = NoCall
  /\ UNCHANGED <<store, cast, clearPolicy, togglePolicy, inflight>>

Next == Get \/ GetAjax \/ Post \/ PostAjax \/ Complete

Spec == Init /\ [][Next]_vars

(***************************************************************************)
(* Concurrent asynchronous writes: each user's post_ajax runs in a worker  *)
(* of its own and the workers interleave between the handler's three       *)
(* calls (views.py lines 201, 202, 203).  record_vote and toggle are one   *)
(* atomic step each (specification, section 5).                            *)
(***************************************************************************)
ConcurrentRequests(u) ==
  { Request("POST", TRUE, u, Kw("Item", None, None, "1", None, d), None, None) :
      d \in {None, "up", "down", "clear"} }

Quiet == /\ req = NoRequest
         /\ UNCHANGED <<req, resp, call>>

BeginPostAjax(u) ==
  /\ inflight[u].pc = "idle"
  /\ \E r \in ConcurrentRequests(u) :
       inflight' = [inflight EXCEPT ![u] = [@ EXCEPT !.pc = "201", !.req = r]]
  /\ Quiet
  /\ UNCHANGED <<store, cast, clearPolicy, togglePolicy>>

ResolveObject(u) ==
  /\ inflight[u].pc = "201"
  /\ LET o == get_object(inflight[u].req.kwargs)
     IN inflight' = [inflight EXCEPT ![u] =
                       IF o.exc = "none" THEN [@ EXCEPT !.pc = "202", !.obj = o.obj]
                       ELSE Idle(@.hasCast)]
  /\ Quiet
  /\ UNCHANGED <<store, cast, clearPolicy, togglePolicy>>

CastVote(u) ==
  /\ inflight[u].pc = "202"
  /\ LET r == inflight[u].req
         v == vote_on_object(store, r, inflight[u].obj)
     IN /\ store' = v.store
        /\ cast' = CastAfter(r, v)
        /\ inflight' = [inflight EXCEPT ![u] =
                          IF v.exc = "none"
                          THEN [@ EXCEPT !.pc = "203", !.hasCast = TRUE]
                          ELSE Idle(@.hasCast)]
  /\ Quiet
  /\ UNCHANGED <<clearPolicy, togglePolicy>>

FetchScore(u) ==
  /\ inflight[u].pc = "203"
  /\ inflight' = [inflight EXCEPT ![u] = Idle(@.hasCast)]
  /\ Quiet
  /\ UNCHANGED <<store, cast, clearPolicy, togglePolicy>>

NextConcurrent ==
  \E u \in Users :
    BeginPostAjax(u) \/ ResolveObject(u) \/ CastVote(u) \/ FetchScore(u)

SpecConcurrent == Init /\ [][NextConcurrent]_vars

(***************************************************************************)
(* Properties                                                              *)
(***************************************************************************)
RECURSIVE SumCast(_, _)
SumCast(o, U) ==
  IF U = {} THEN 0
  ELSE LET u == CHOOSE x \in U : TRUE
       IN cast[o][u] + SumCast(o, U \ {u})

Handled == req # NoRequest

ResolvedObject == get_object(req.kwargs)

IsWrite == Handled /\ req.method = "POST"

IsRead == Handled /\ req.method = "GET"

\* C1: after any sequence of write requests, every entity's score is the sum
\* of the voters' current directions on it, and the score a request returns
\* is that sum (A up, B down, A clear gives 1, 0, -1).
C1_ScoreIsSumOfDirections ==
  /\ \A o \in Pks : get_score(store, o) = SumCast(o, Users)
  /\ (Handled /\ resp.kind \in {"html", "json"} /\ resp.success # "false")
       => resp.score = SumCast(ResolvedObject.obj, Users)

C1_Witness ==
  /\ IsWrite /\ req.ajax /\ req.user = 1 /\ req.kwargs.direction = "clear"
  /\ ResolvedObject.obj = "1"
  /\ cast["1"][1] = 0 /\ cast["1"][2] = -1
  /\ resp.success = "true" /\ resp.score = -1

\* C2: the store never holds two Vote records for the same (object, voter),
\* and every record's direction is +1, 0 or -1.
C2_OneVotePerVoter ==
  /\ \A r1, r2 \in store : (r1.obj = r2.obj /\ r1.user = r2.user) => r1 = r2
  /\ \A r \in store : r.direction \in {1, 0, -1}

C2_Witness ==
  /\ \A o \in Pks : \A u \in {1, 2} : VotesOf(store, o, u) # {}
  /\ \E r \in store : r.direction = 0
  /\ \E r \in store : r.direction = -1
  /\ \E r \in store : r.direction = 1
  /\ Cardinality(store) >= 3

\* C3: once a request with an explicit direction has been handled, casting
\* the same vote again (once or twice more) raises nothing and leaves the
\* store and the score as they are; the voter contributes the direction once.
C3_RepeatedVoteIsIdempotent ==
  (IsWrite /\ ResolvedObject.exc = "none"
     /\ req.kwargs.direction \in {"up", "down", "clear"})
  => LET o == ResolvedObject.obj
         d == CASE req.kwargs.direction = "up" -> 1
                [] req.kwargs.direction = "down" -> -1
                [] OTHER -> 0
         second == vote_on_object(store, req, o)
         third == vote_on_object(second.store, req, o)
     IN /\ second.exc = "none" /\ third.exc = "none"
        /\ second.store = store /\ third.store = store
        /\ get_score(second.store, o) = get_score(store, o)
        /\ CurrentDirection(store, o, req.user) = d
        /\ Cardinality(VotesOf(store, o, req.user)) <= 1
        /\ req.ajax => (post_ajax(req).resp = resp /\ resp.success = "true")

C3_Witness ==
  /\ IsWrite /\ req.ajax /\ req.kwargs.direction = "down"
  /\ ResolvedObject.exc = "none"
  /\ resp.success = "true" /\ resp.vote = -1
  /\ Cardinality(store) >= 2

\* The toggle rule of C4: a write without a direction token toggles: from
\* no vote it sets up (score + 1), from up it clears (score - 1), so two
\* toggles in a row from the no-vote state give the starting score back.
C4_ToggleStep ==
  (req = NoRequest /\ req'.method = "POST" /\ ~Truthy(req'.kwargs.direction)
     /\ get_object(req'.kwargs).exc = "none")
  => LET o == get_object(req'.kwargs).obj
         u == req'.user
         before == CurrentDirection(store, o, u)
         after == CurrentDirection(store', o, u)
         second == vote_on_object(store', req', o)
     IN /\ call'.op = "toggle" /\ call'.obj = o /\ call'.user = u
        /\ before = 0 =>
             /\ after = 1
             /\ get_score(store', o) = get_score(store, o) + 1
             /\ CurrentDirection(second.store, o, u) = 0
             /\ get_score(second.store, o) = get_score(store, o)
        /\ before = 1 =>
             /\ after = 0
             /\ get_score(store', o) = get_score(store, o) - 1

\* C4: every step of the view satisfies the toggle rule above: none -> up,
\* up -> cleared, and two toggles from no vote restore the score.
C4_ToggleUpThenClear == [][C4_ToggleStep]_vars

C4_Witness ==
  /\ IsWrite /\ ~Truthy(req.kwargs.direction) /\ call.op = "toggle"
  /\ togglePolicy = "up"
  /\ CurrentDirection(store, call.obj, req.user) = 0
  /\ resp.success = "true" /\ ~resp.hasVote

\* C5: a write on a resolved object calls record_vote with +1 for "up", -1
\* for "down" and 0 for "clear", calls toggle when there is no token, and
\* for any other token raises the bad-input error and calls neither.
C5_DirectionResolution ==
  (IsWrite /\ ResolvedObject.exc = "none")
  => LET o == ResolvedObject.obj
         t == req.kwargs.direction
         recorded(d) == call = [op |-> "record_vote", obj |-> o,
                                user |-> req.user, vote |-> d]
     IN /\ t = "up" => recorded(1)
        /\ t = "down" => recorded(-1)
        /\ t = "clear" => recorded(0)
        /\ ~Truthy(t) => call = [op |-> "toggle", obj |-> o,
                                 user |-> req.user, vote |-> 0]
        /\ (Truthy(t) /\ t \notin {"up", "down", "clear"}) =>
             /\ call = NoCall
             /\ resp.error = "AttributeError"

C5_Witness ==
  /\ IsWrite /\ ResolvedObject.exc = "none"
  /\ req.kwargs.direction = "sideways"
  /\ store # {}
  /\ resp.error = "AttributeError"

\* C6: in get_ajax and post_ajax every resolution or validation failure is
\* rendered as a payload with success false and an error; nothing escapes.
C6_AjaxFailureIsRendered ==
  (Handled /\ req.ajax)
  => /\ resp.kind = "json"
     /\ (ResolvedObject.exc # "none"
           \/ (IsWrite /\ Truthy(req.kwargs.direction)
                /\ req.kwargs.direction \notin {"up", "down", "clear"}))
         => (resp.success = "false" /\ resp.error # "none")

\* C7: a synchronous post that resolved its object and cast the vote
\* redirects to post_vote_redirect, else to the "next" parameter, else to
\* the object's get_absolute_url, and fails with the configuration error
\* when there is none of the three.
C7_PostRedirects ==
  (IsWrite /\ ~req.ajax /\ ResolvedObject.exc = "none" /\ call.op # "none")
  => LET item == CHOOSE i \in Items : i.pk = ResolvedObject.obj
     IN IF req.post_vote_redirect # None
        THEN resp = Redirect(req.post_vote_redirect)
        ELSE IF req.next # None THEN resp = Redirect(req.next)
        ELSE IF item.has_url THEN resp.kind = "redirect"
        ELSE resp = Exception("AttributeError")

\* The read step of C8: a read request (get or get_ajax), whether it succeeds
\* or fails, calls no store operation and leaves every Vote record and every
\* score as it was.
C8_ReadStep ==
  req'.method = "GET"
  => /\ store' = store
     /\ call' = NoCall
     /\ \A o \in Pks : get_score(store', o) = get_score(store, o)

\* C8: no read request, successful or failed, ever changes a Vote record or
\* a score: vote registration happens on POST only.
C8_ReadsDoNotVote == [][C8_ReadStep]_vars

C8_Witness ==
  /\ IsRead /\ req.ajax /\ resp.kind = "json"
  /\ resp.score = 2
  /\ Cardinality(store) >= 3

AllCompleted == \A u \in Users : inflight[u].pc = "idle"

\* C9 (as stated): once all concurrent writes have completed, every voter
\* who cast a vote on the entity has exactly one record, with the last
\* direction cast, and the score is the sum of those directions.
C9_ExactlyOneRecordPerVoter ==
  AllCompleted
  => /\ \A u \in Users : inflight[u].hasCast =>
          /\ Cardinality(VotesOf(store, "1", u)) = 1
          /\ \A r \in VotesOf(store, "1", u) : r.direction = cast["1"][u]
     /\ \A o \in Pks : get_score(store, o) = SumCast(o, Users)

\* C9 (amended): once all concurrent writes have completed, no vote is lost:
\* every voter has at most one record, a voter whose last cast direction is
\* up or down has exactly one record with that direction, a voter whose last
\* cast is a clear has no record or one of direction 0, and the score is the
\* sum of the last cast directions.
C9_NoLostVote ==
  AllCompleted
  => /\ \A o \in Pks : \A u \in Users :
          /\ Cardinality(VotesOf(store, o, u)) <= 1
          /\ \A r \in VotesOf(store, o, u) : r.direction = cast[o][u]
          /\ cast[o][u] # 0 => Cardinality(VotesOf(store, o, u)) = 1
     /\ \A o \in Pks : get_score(store, o) = SumCast(o, Users)

C9_Witness ==
  /\ AllCompleted
  /\ \A u \in {1, 2} : inflight[u].hasCast
  /\ cast["1"][1] = 1 /\ cast["1"][2] = -1
  /\ get_score(store, "1") = 0

\* The failed-write step of C10: a write request that ends in an error,
\* rendered or propagated, leaves the vote store as it was before the request.
C10_FailedWriteStep ==
  (req'.method = "POST" /\ (resp'.kind = "exception" \/ resp'.success = "false"))
  => store' = store

\* C10: no write request that ends in an error creates, changes or removes
\* a Vote record.
C10_FailedWriteKeepsStore == [][C10_FailedWriteStep]_vars

====
